---- MODULE Spec2Model ----
(***************************************************************************)
(* The comparative-report pipeline of app.py (main): the numeric           *)
(* normalisation of the metric columns, the country filter, the per-year   *)
(* aggregation, and the assembly and formatting of the 2024-vs-2025 table. *)
(*                                                                         *)
(* Text (cell text of the uploaded file, year labels, display strings) is  *)
(* a sequence of one-character strings, so that parsing and formatting are *)
(* computed digit by digit.  A number produced by the aggregation is the   *)
(* rational num/den (den >= 1); metric values are non-negative integers.   *)
(*                                                                         *)
(* One action is one run of the script, which Streamlit starts again from  *)
(* the top on every widget change.  The charts, the messages shown to the  *)
(* user, the built-in sample data and the unused helper get_val are left   *)
(* out: none of them writes anything the report reads.                     *)
(***************************************************************************)
EXTENDS Integers, Sequences, FiniteSets, TLC

\* Largest number of records in the uploaded file.
MaxRecords == 3

Range(s) == {s[i] : i \in 1..Len(s)}

-----------------------------------------------------------------------------
(* Text <-> number conversions *)

Digits == <<"0", "1", "2", "3", "4", "5", "6", "7", "8", "9">>

DigitChars == {"0", "1", "2", "3", "4", "5", "6", "7", "8", "9"}

DigitVal == [c \in DigitChars |-> CHOOSE d \in 0..9 : Digits[d + 1] = c]

IsNumeral(s) == Len(s) > 0 /\ \A i \in 1..Len(s) : s[i] \in DigitChars

\* the number denoted by the first k characters of a numeral
RECURSIVE NumeralValue(_, _)
NumeralValue(s, k) ==
    IF k = 0 THEN 0 ELSE 10 * NumeralValue(s, k - 1) + DigitVal[s[k]]

\* Python int(<decimal text>)
int(s) == NumeralValue(s, Len(s))

\* Python str(<non-negative integer>)
RECURSIVE str(_)
str(n) ==
    IF n < 10 THEN <<Digits[n + 1]>>
    ELSE str(n \div 10) \o <<Digits[(n % 10) + 1]>>

\* pd.to_numeric(cell, errors='coerce'): the number a cell's text denotes, NaN otherwise
to_numeric(cell) ==
    IF IsNumeral(cell) THEN [nan |-> FALSE, val |-> int(cell)]
    ELSE [nan |-> TRUE, val |-> 0]

\* fillna as a slip would have it: the gaps filled with 1
FillnaOne(x, d) == IF x.nan THEN 1 ELSE x.val

\* Series.fillna(d), cell by cell
fillna(x, d) == IF x.nan THEN d ELSE x.val

\* the leading (Len - 3k) digits of a numeral followed by its ","-separated groups of three
RECURSIVE Grouped3(_)
Grouped3(s) ==
    IF Len(s) <= 3 THEN s
    ELSE Grouped3(SubSeq(s, 1, Len(s) - 3)) \o <<",">> \o SubSeq(s, Len(s) - 2, Len(s))

\* f"{int(val):,}" for val = num/den >= 0
FormatCount(val) == Grouped3(str(val.num \div val.den))

\* val rounded to tenths, ties to the even tenth (the value is exact at a tie)
RoundTenths(val) ==
    LET q == (10 * val.num) \div val.den
        r2 == 2 * ((10 * val.num) % val.den)
    IN  IF r2 > val.den \/ (r2 = val.den /\ q % 2 = 1) THEN q + 1 ELSE q

\* f"{val:.1f}" for val = num/den >= 0
FormatMedian(val) ==
    LET t == RoundTenths(val)
    IN  str(t \div 10) \o <<".">> \o <<Digits[(t % 10) + 1]>>

-----------------------------------------------------------------------------
(* Configuration tables *)

cols_to_numeric == <<
    "People in the Registry", "Total number of clinic visits",
    "Number of People with CF deceased", "Total number of hospitalization events",
    "Median FEV1% for 10 year olds", "Median FEV1% for 18 year olds",
    "Median WHO Weight-for-Length Percentile for patients less than 24 months",
    "Median BMI%ile 2-19 years", "Median BMI for patients 20 years and older",
    "Total number of patients qualifying for modulator therapy",
    "Total number of patients on modulator med" >>

\* the columns main() sums for the KPI tiles before the report is built
kpi_cols == {
    "People in the Registry", "Total number of clinic visits",
    "Number of People with CF deceased", "Total number of patients on modulator med" }

agg_map ==
    ("People in the Registry" :> "sum") @@
    ("Number of People with CF deceased" :> "sum") @@
    ("Total number of clinic visits" :> "sum") @@
    ("Total number of hospitalization events" :> "sum") @@
    ("Median FEV1% for 10 year olds" :> "mean") @@
    ("Median FEV1% for 18 year olds" :> "mean") @@
    ("Median WHO Weight-for-Length Percentile for patients less than 24 months" :> "mean") @@
    ("Median BMI%ile 2-19 years" :> "mean") @@
    ("Median BMI for patients 20 years and older" :> "mean") @@
    ("Total number of patients qualifying for modulator therapy" :> "sum") @@
    ("Total number of patients on modulator med" :> "sum")

target_years == << <<"2", "0", "2", "4">>, <<"2", "0", "2", "5">> >>

RowSpec(l, k, o) == [label |-> l, col_key |-> k, op |-> o]

rows_config == <<
    RowSpec("People in the Registry", "People in the Registry", "sum"),
    RowSpec("Number of People with CF by Country (Count of Countries)", "Country_Count_Special", "special"),
    RowSpec("Number of People with CF deceased", "Number of People with CF deceased", "sum"),
    RowSpec("Total number of clinic visits", "Total number of clinic visits", "sum"),
    RowSpec("Total number of hospitalization events", "Total number of hospitalization events", "sum"),
    RowSpec("Median FEV1% for 10 year olds", "Median FEV1% for 10 year olds", "mean"),
    RowSpec("Median FEV1% for 18 year olds", "Median FEV1% for 18 year olds", "mean"),
    RowSpec("Median WHO Weight-for-Length Percentile (<24mo)", "Median WHO Weight-for-Length Percentile for patients less than 24 months", "mean"),
    RowSpec("Median BMI%ile 2-19 years", "Median BMI%ile 2-19 years", "mean"),
    RowSpec("Median BMI for patients 20 years and older", "Median BMI for patients 20 years and older", "mean"),
    RowSpec("Total number of patients qualifying for modulator therapy", "Total number of patients qualifying for modulator therapy", "sum"),
    RowSpec("Total number of patients on modulator med", "Total number of patients on modulator med", "sum") >>

\* "Median" in label, for the labels of rows_config
ContainsMedian(label) ==
    label \in { "Median FEV1% for 10 year olds", "Median FEV1% for 18 year olds",
                "Median WHO Weight-for-Length Percentile (<24mo)",
                "Median BMI%ile 2-19 years", "Median BMI for patients 20 years and older" }

-----------------------------------------------------------------------------
(* The uploaded file *)

\* the two kinds of file row: the text of each metric column in a row of that kind.
\* Between them a column holds two different numerals, or a numeral and a
\* non-numeric text, or a numeral and an empty cell.
CleanRow ==
    ("People in the Registry" :> <<"1", "0">>) @@
    ("Total number of clinic visits" :> <<"1", "0", "0", "0">>) @@
    ("Number of People with CF deceased" :> <<"1">>) @@
    ("Total number of hospitalization events" :> <<"2", "3">>) @@
    ("Median FEV1% for 10 year olds" :> <<"3", "7">>) @@
    ("Median FEV1% for 18 year olds" :> <<"2", "2">>) @@
    ("Median WHO Weight-for-Length Percentile for patients less than 24 months" :> <<"1">>) @@
    ("Median BMI%ile 2-19 years" :> <<"3", "8">>) @@
    ("Median BMI for patients 20 years and older" :> <<"5", "8">>) @@
    ("Total number of patients qualifying for modulator therapy" :> <<"6">>) @@
    ("Total number of patients on modulator med" :> <<"6">>)

DirtyRow ==
    ("People in the Registry" :> <<"5">>) @@
    ("Total number of clinic visits" :> <<"2", "3", "4">>) @@
    ("Number of People with CF deceased" :> <<"N", "/", "A">>) @@
    ("Total number of hospitalization events" :> <<>>) @@
    ("Median FEV1% for 10 year olds" :> <<"N", "/", "A">>) @@
    ("Median FEV1% for 18 year olds" :> <<>>) @@
    ("Median WHO Weight-for-Length Percentile for patients less than 24 months" :> <<"0">>) @@
    ("Median BMI%ile 2-19 years" :> <<"4", "6">>) @@
    ("Median BMI for patients 20 years and older" :> <<"2", "7">>) @@
    ("Total number of patients qualifying for modulator therapy" :> <<"1", "5">>) @@
    ("Total number of patients on modulator med" :> <<"x">>)

\* what a file row can be: a record of a target year of either kind, or a clean
\* record of another year
RowChoices ==
    ({"Country1", "Country2"} \X {2024, 2025} \X {CleanRow, DirtyRow})
        \cup ({"Country1", "Country2"} \X {2023} \X {CleanRow})

\* a file row: the metric columns the file has, with the texts of the row's kind
FileRow(i, choice, cols) ==
    [RecordID |-> i, Centers |-> "Center1", Country |-> choice[1], Year |-> choice[2],
     metrics |-> [m \in cols |-> choice[3][m]]]

\* a file of n rows
File(n, choice, cols) == [i \in 1..n |-> FileRow(i, choice[i], cols)]

-----------------------------------------------------------------------------
(* The pipeline's steps, as functions of the data *)

\* df[col] = pd.to_numeric(df[col], errors='coerce').fillna(0)
NormalizeColumn(rows, col) ==
    [i \in 1..Len(rows) |->
        [rows[i] EXCEPT !.metrics = [@ EXCEPT ![col] = fillna(to_numeric(@), 0)]]]

\* for col in cols_to_numeric[1..k]: if col in df.columns: normalise it
RECURSIVE NormalizeUpTo(_, _, _)
NormalizeUpTo(rows, cols, k) ==
    IF k = 0 THEN rows
    ELSE LET done == NormalizeUpTo(rows, cols, k - 1)
         IN  IF cols_to_numeric[k] \in cols
             THEN NormalizeColumn(done, cols_to_numeric[k])
             ELSE done

Normalize(rows, cols) == NormalizeUpTo(rows, cols, Len(cols_to_numeric))

\* df["Country"].unique(), as a set
CountryOptions(rows) == {rows[i].Country : i \in 1..Len(rows)}

\* the mask as a slip would have it: the rows outside the selection
NotInSelection(r, selected) == r.Country \notin selected

\* df[df["Country"].isin(selected)]
InSelection(r, selected) == r.Country \in selected

\* the filter as a slip would have it: an empty selection filters nothing
FilterUnlessEmpty(rows, selected) ==
    IF selected = {} THEN rows ELSE SelectSeq(rows, LAMBDA r : InSelection(r, selected))

FilterByCountry(rows, selected) == SelectSeq(rows, LAMBDA r : InSelection(r, selected))

\* the group keys of groupby('Year')
GroupKeys(rows) == {rows[i].Year : i \in 1..Len(rows)}

\* the group as a slip would have it: the rows up to and including the year
GroupRowsUpToYear(rows, y) == SelectSeq(rows, LAMBDA r : r.Year <= y)

\* one group: the rows of a year, in file order
GroupRows(rows, y) == SelectSeq(rows, LAMBDA r : r.Year = y)

\* a column of a group, in file order
ColumnOf(rows, m) == [i \in 1..Len(rows) |-> rows[i].metrics[m]]

\* Series.sum(): the values added in row order
RECURSIVE SeriesSum(_)
SeriesSum(vals) ==
    IF Len(vals) = 0 THEN 0
    ELSE SeriesSum(SubSeq(vals, 1, Len(vals) - 1)) + vals[Len(vals)]

\* the aggregation as a slip would have it: every metric summed
AggAlwaysSum(op, vals) == [num |-> SeriesSum(vals), den |-> 1]

\* one aggregation of agg_map over the values of a (non-empty) group
AggValue(op, vals) ==
    IF op = "sum" THEN [num |-> SeriesSum(vals), den |-> 1]
    ELSE [num |-> SeriesSum(vals), den |-> Len(vals)]

\* groupby('Year').agg(agg_map).T with its columns renamed str(year)
GroupedOf(rows) ==
    LET byYear == [y \in GroupKeys(rows) |->
                      [m \in DOMAIN agg_map |->
                          AggValue(agg_map[m], ColumnOf(GroupRows(rows, y), m))]]
    IN  [s \in {str(y) : y \in GroupKeys(rows)} |->
            byYear[CHOOSE y \in GroupKeys(rows) : str(y) = s]]

\* the count as a slip would have it: the records, not the distinct countries
CountRecords(rows) == Len(rows)

\* Series.nunique() of the countries of a group
NUnique(rows) == Cardinality({rows[i].Country : i \in 1..Len(rows)})

\* the counts as a slip would have them: the runs of equal countries in file
\* order, which is the distinct count only when the rows are sorted by country
UniqueRunsOf(rows) ==
    [y \in GroupKeys(rows) |->
        LET grp == GroupRows(rows, y)
        IN  Cardinality({i \in 1..Len(grp) : i = 1 \/ grp[i].Country # grp[i - 1].Country})]

\* groupby('Year')['Country'].nunique()
UniqueCountriesOf(rows) ==
    [y \in GroupKeys(rows) |-> NUnique(GroupRows(rows, y))]

Zero == [num |-> 0, den |-> 1]

\* the value of one report cell: val = 0, replaced when the lookup finds the year
CellValue(rs, y, g, uc) ==
    IF rs.col_key = "Country_Count_Special"
    THEN IF int(y) \in DOMAIN uc THEN [num |-> uc[int(y)], den |-> 1] ELSE Zero
    ELSE IF y \in DOMAIN g THEN g[y][rs.col_key] ELSE Zero

\* the display string of one report cell
FormatCell(label, val) ==
    IF ContainsMedian(label) THEN FormatMedian(val) ELSE FormatCount(val)

\* row_dict as a slip would have it: a column only for the years found in the data
RECURSIVE RowValuesPresentOnly(_, _, _, _)
RowValuesPresentOnly(rs, k, g, uc) ==
    IF k = 0 THEN <<>>
    ELSE IF target_years[k] \in DOMAIN g
         THEN (target_years[k] :> FormatCell(rs.label, CellValue(rs, target_years[k], g, uc)))
              @@ RowValuesPresentOnly(rs, k - 1, g, uc)
         ELSE RowValuesPresentOnly(rs, k - 1, g, uc)

\* row_dict after the inner loop has run over target_years[1..k]
RECURSIVE RowValuesUpTo(_, _, _, _)
RowValuesUpTo(rs, k, g, uc) ==
    IF k = 0 THEN <<>>
    ELSE (target_years[k] :> FormatCell(rs.label, CellValue(rs, target_years[k], g, uc)))
         @@ RowValuesUpTo(rs, k - 1, g, uc)

ReportRow(rs, g, uc) ==
    [Category |-> rs.label, values |-> RowValuesUpTo(rs, Len(target_years), g, uc)]

\* report_data as a slip would have it: each new row put in front
RECURSIVE ReportNewestFirst(_, _, _)
ReportNewestFirst(k, g, uc) ==
    IF k = 0 THEN <<>>
    ELSE <<ReportRow(rows_config[k], g, uc)>> \o ReportNewestFirst(k - 1, g, uc)

\* report_data after the outer loop has run over rows_config[1..k]
RECURSIVE ReportUpTo(_, _, _)
ReportUpTo(k, g, uc) ==
    IF k = 0 THEN <<>>
    ELSE Append(ReportUpTo(k - 1, g, uc), ReportRow(rows_config[k], g, uc))

ReportOf(g, uc) == ReportUpTo(Len(rows_config), g, uc)

\* grouped.loc[col_key, y] raises KeyError when the row key is not in grouped
LookupFails(g) ==
    \E k \in 1..Len(rows_config), j \in 1..Len(target_years) :
        /\ rows_config[k].col_key # "Country_Count_Special"
        /\ target_years[j] \in DOMAIN g
        /\ rows_config[k].col_key \notin DOMAIN g[target_years[j]]

-----------------------------------------------------------------------------
(* The state of one session *)

VARIABLES
    uploaded,          \* the rows of the uploaded file, as read (cell texts)
    columns,           \* the metric columns the file has
    pc,                \* where the script run stands
    df,                \* the data frame main() works on
    countries,         \* the multiselect's selection
    df_filtered,
    kpis,              \* the four KPI totals
    grouped,
    unique_countries,
    report_data

vars == <<uploaded, columns, pc, df, countries, df_filtered, kpis, grouped,
          unique_countries, report_data>>

AllColumns == Range(cols_to_numeric)

\* the lookups of lines 118-121 and 224 raise KeyError on a column the file lacks
ColumnsMissing(cols) == ~(kpi_cols \subseteq cols /\ DOMAIN agg_map \subseteq cols)

\* the session opens on an uploaded file; the script has not run yet
Opened(cols) ==
    /\ \E n \in 0..MaxRecords :
          \E choice \in [1..n -> RowChoices] : uploaded = File(n, choice, cols)
    /\ columns = cols
    /\ pc = "loaded"
    /\ df = <<>>
    /\ countries = {}
    /\ df_filtered = <<>>
    /\ kpis = <<>>
    /\ grouped = <<>>
    /\ unique_countries = <<>>
    /\ report_data = <<>>

Init == Opened(AllColumns)

\* one run of main() on the uploaded file with the multiselect at `selected`
Main(selected) ==
    /\ df' = Normalize(uploaded, columns)
    /\ countries' = selected
    /\ df_filtered' = FilterByCountry(df', selected)
    /\ IF ColumnsMissing(columns)
       THEN /\ pc' = "error"
            /\ kpis' = <<>>
            /\ grouped' = <<>>
            /\ unique_countries' = <<>>
            /\ report_data' = <<>>
       ELSE /\ kpis' = [m \in kpi_cols |-> SeriesSum(ColumnOf(df_filtered', m))]
            /\ grouped' = GroupedOf(df_filtered')
            /\ unique_countries' = UniqueCountriesOf(df_filtered')
            /\ IF LookupFails(grouped')
               THEN pc' = "error" /\ report_data' = <<>>
               ELSE pc' = "done" /\ report_data' = ReportOf(grouped', unique_countries')
    /\ UNCHANGED <<uploaded, columns>>

\* the first run: the multiselect stands at its default, every country of the file
FirstRun ==
    /\ pc = "loaded"
    /\ Main(CountryOptions(uploaded))

\* the user adds a country to the multiselect or removes one, and the script runs again
ChangeSelection ==
    /\ pc # "loaded"
    /\ \E c \in CountryOptions(df) :
          Main(IF c \in countries THEN countries \ {c} ELSE countries \cup {c})

Next == FirstRun \/ ChangeSelection

Spec == Init /\ [][Next]_vars

\* sessions on files that lack one of the metric columns
InitOneColumnMissing == \E m \in AllColumns : Opened(AllColumns \ {m})

SpecOneColumnMissing == InitOneColumnMissing /\ [][Next]_vars

-----------------------------------------------------------------------------
(* What the report is checked against: the records that count for a period,  *)
(* their totals added up over the set of records, and the expected texts     *)
(* written out.                                                              *)

TargetPeriods == {2024, 2025}

PeriodText == (2024 :> <<"2", "0", "2", "4">>) @@ (2025 :> <<"2", "0", "2", "5">>)

\* the number each numeral of the row kinds denotes; any other text denotes none
Denotes ==
    (<<"0">> :> 0) @@ (<<"1">> :> 1) @@ (<<"5">> :> 5) @@ (<<"6">> :> 6) @@
    (<<"1", "0">> :> 10) @@ (<<"1", "5">> :> 15) @@ (<<"2", "2">> :> 22) @@
    (<<"2", "3">> :> 23) @@ (<<"2", "7">> :> 27) @@ (<<"3", "7">> :> 37) @@
    (<<"3", "8">> :> 38) @@ (<<"4", "6">> :> 46) @@ (<<"5", "8">> :> 58) @@
    (<<"2", "3", "4">> :> 234) @@ (<<"1", "0", "0", "0">> :> 1000)

Repaired(text) == IF text \in DOMAIN Denotes THEN Denotes[text] ELSE 0

\* the records of period Y that the selection S lets through (positions in the file)
PassedUnder(S, Y) ==
    {i \in 1..Len(uploaded) : uploaded[i].Year = Y /\ uploaded[i].Country \in S}

Passed(Y) == PassedUnder(countries, Y)

\* the total of metric m over the records at the positions I
RECURSIVE TotalOver(_, _)
TotalOver(I, m) ==
    IF I = {} THEN 0
    ELSE LET i == CHOOSE j \in I : TRUE
         IN  Repaired(uploaded[i].metrics[m]) + TotalOver(I \ {i}, m)

CountryCountRows == {k \in 1..Len(rows_config) : rows_config[k].op = "special"}
SumRows == {k \in 1..Len(rows_config) : rows_config[k].op = "sum"}
MeanRows == {k \in 1..Len(rows_config) : rows_config[k].op = "mean"}

ZeroText(k) == IF k \in MeanRows THEN <<"0", ".", "0">> ELSE <<"0">>

CountText == (0 :> <<"0">>) @@ (1 :> <<"1">>) @@ (2 :> <<"2">>) @@ (3 :> <<"3">>)

Cell(k, Y) == report_data[k].values[PeriodText[Y]]

-----------------------------------------------------------------------------
(* Claims *)

\* C1: every report row has exactly the two value columns "2024" and "2025",
\* whichever periods the file holds; and where no record that passed the filter
\* has a target period, every row's cell for that period is zero: "0" on the
\* count rows, "0.0" on the median rows.
C1_TwoPeriodColumns ==
    pc = "done" =>
        \A k \in 1..Len(report_data) :
            /\ DOMAIN report_data[k] = {"Category", "values"}
            /\ DOMAIN report_data[k].values = {<<"2", "0", "2", "4">>, <<"2", "0", "2", "5">>}
            /\ \A Y \in TargetPeriods : Passed(Y) = {} => Cell(k, Y) = ZeroText(k)

\* a report on a file with records of 2024 and of another year, none of 2025
C1_Witness ==
    /\ pc = "done"
    /\ Passed(2024) # {}
    /\ Passed(2025) = {}
    /\ \E i \in 1..Len(uploaded) : uploaded[i].Year \notin TargetPeriods
    /\ \A k \in 1..Len(rows_config) : Cell(k, 2025) = ZeroText(k)

\* C2: the report holds one row per entry of rows_config, in that order: the
\* k-th row carries the k-th label, whatever the records and their order.
C2_RowOrder ==
    pc = "done" =>
        /\ Len(report_data) = Len(rows_config)
        /\ \A k \in 1..Len(rows_config) : report_data[k].Category = rows_config[k].label

\* a report whose cell texts differ from row to row and from period to period
C2_Witness ==
    /\ pc = "done"
    /\ Len(report_data) = 12
    /\ Cell(1, 2024) = <<"2", "0">>
    /\ Cell(3, 2024) = <<"2">>
    /\ Cell(4, 2024) = <<"2", ",", "0", "0", "0">>
    /\ Cell(1, 2025) = <<"5">>

\* C3: for each target period the country-count row shows the number of distinct
\* countries among the records of that period that passed the filter, not the
\* number of those records.
C3_DistinctCountries ==
    pc = "done" =>
        \A Y \in TargetPeriods :
            LET n == Cardinality({uploaded[i].Country : i \in Passed(Y)})
            IN  /\ \A k \in CountryCountRows : Cell(k, Y) = CountText[n]
                /\ Y \in DOMAIN unique_countries <=> Passed(Y) # {}
                /\ Y \in DOMAIN unique_countries => unique_countries[Y] = n

\* three records of 2024 passed the filter, from two countries
C3_Witness ==
    /\ pc = "done"
    /\ Cardinality(Passed(2024)) = 3
    /\ unique_countries[2024] = 2
    /\ Cell(2, 2024) = <<"2">>

\* C4: for a target period with at least one record that passed the filter, the
\* cell of a SUM row shows the total of the row's metric over those records and
\* the cell of a MEAN row shows their mean (the total over their number), as the
\* count and the one-decimal text; two records of 2024 with 10 and 5 people in
\* the registry and none of 2025 give "15" and "0" on the first row.
C4_SumAndMean ==
    pc = "done" =>
        /\ \A Y \in TargetPeriods :
              Passed(Y) # {} =>
                  /\ \A k \in SumRows :
                        Cell(k, Y) = FormatCount([num |-> TotalOver(Passed(Y), rows_config[k].col_key),
                                                  den |-> 1])
                  /\ \A k \in MeanRows :
                        Cell(k, Y) = FormatMedian([num |-> TotalOver(Passed(Y), rows_config[k].col_key),
                                                   den |-> Cardinality(Passed(Y))])
        /\ ( /\ Cardinality(Passed(2024)) = 2
             /\ Passed(2025) = {}
             /\ {uploaded[i].metrics["People in the Registry"] : i \in Passed(2024)}
                    = {<<"1", "0">>, <<"5">>} )
           => /\ report_data[1].Category = "People in the Registry"
              /\ Cell(1, 2024) = <<"1", "5">>
              /\ Cell(1, 2025) = <<"0">>

\* 10 and 5 people in 2024, nothing in 2025; the mean of 58 and 27 shows as "42.5"
C4_Witness ==
    /\ pc = "done"
    /\ Cardinality(Passed(2024)) = 2
    /\ Passed(2025) = {}
    /\ Cell(1, 2024) = <<"1", "5">>
    /\ Cell(4, 2024) = <<"1", ",", "2", "3", "4">>
    /\ Cell(10, 2024) = <<"4", "2", ".", "5">>

\* the records of s in the order p gives them
Permuted(s, p) == [i \in 1..Len(s) |-> s[p[i]]]

\* C5: the aggregation does not depend on the order of its input records: under
\* every permutation of the filtered records the sums and means per period and
\* metric and the distinct-country counts per period are the ones computed, and
\* the report is the one assembled from these two results alone.
C5_OrderIndependent ==
    pc = "done" =>
        /\ report_data = ReportOf(grouped, unique_countries)
        /\ \A p \in Permutations(1..Len(df_filtered)) :
              LET shuffled == Permuted(df_filtered, p)
              IN  /\ GroupedOf(shuffled) = grouped
                  /\ UniqueCountriesOf(shuffled) = unique_countries

\* three records of one period with different values and countries, in an order
\* that is not the only one that file could have
C5_Witness ==
    /\ pc = "done"
    /\ Len(df_filtered) = 3
    /\ \A i \in 1..3 : df_filtered[i].Year = 2024
    /\ df_filtered[1].metrics # df_filtered[2].metrics
    /\ df_filtered[2].Country # df_filtered[3].Country

\* C6: when the selection is empty or excludes every record, the filtered
\* record set is empty and the run still ends with a report in which every cell
\* of every row, the country-count row included, is zero for both target periods.
C6_EmptySelection ==
    (pc # "loaded" /\ \A i \in 1..Len(uploaded) : uploaded[i].Country \notin countries) =>
        /\ df_filtered = <<>>
        /\ pc = "done"
        /\ Len(report_data) = Len(rows_config)
        /\ \A k \in 1..Len(report_data), Y \in TargetPeriods : Cell(k, Y) = ZeroText(k)

\* a file with records of both target periods, and the multiselect emptied
C6_Witness ==
    /\ pc = "done"
    /\ countries = {}
    /\ \E i \in 1..Len(uploaded) : uploaded[i].Year = 2024
    /\ \E i \in 1..Len(uploaded) : uploaded[i].Year = 2025
    /\ Cell(2, 2024) = <<"0">>
    /\ Cell(6, 2025) = <<"0", ".", "0">>

\* C7: when the file lacks a metric column, the run ends with a report in which
\* the cells of that metric's row are zero, and no error is raised.
C7_MissingMetricIsZero ==
    (pc # "loaded" /\ columns # AllColumns) =>
        /\ pc = "done"
        /\ \A k \in 1..Len(rows_config), Y \in TargetPeriods :
              (rows_config[k].op # "special" /\ rows_config[k].col_key \notin columns)
                  => Cell(k, Y) = ZeroText(k)

\* C8: after normalisation every cell of a metric column is a number: the one
\* its text denotes, zero for a text that denotes none and for an empty cell;
\* record id, center, country and period are as in the file; a run on a file
\* with such cells ends with a report, and a repaired cell adds nothing to the
\* sum of its period.
C8_Normalization ==
    pc # "loaded" =>
        /\ Len(df) = Len(uploaded)
        /\ \A i \in 1..Len(df) :
              /\ df[i].RecordID = uploaded[i].RecordID
              /\ df[i].Centers = uploaded[i].Centers
              /\ df[i].Country = uploaded[i].Country
              /\ df[i].Year = uploaded[i].Year
              /\ DOMAIN df[i].metrics = columns
              /\ \A m \in columns : df[i].metrics[m] = Repaired(uploaded[i].metrics[m])
        /\ columns = AllColumns => pc = "done"
        /\ pc = "done" =>
              \A Y \in TargetPeriods, m \in DOMAIN agg_map :
                  (Passed(Y) # {} /\ agg_map[m] = "sum") =>
                      grouped[PeriodText[Y]][m] =
                          [num |-> TotalOver({i \in Passed(Y) : uploaded[i].metrics[m] \in DOMAIN Denotes}, m),
                           den |-> 1]

\* a record with "N/A" deaths beside one with 1 death: the period's sum is 1
C8_Witness ==
    /\ pc = "done"
    /\ Cardinality(Passed(2024)) = 2
    /\ \E i \in Passed(2024) :
          uploaded[i].metrics["Number of People with CF deceased"] = <<"N", "/", "A">>
    /\ \E i \in Passed(2024) :
          uploaded[i].metrics["Total number of hospitalization events"] = <<>>
    /\ grouped[PeriodText[2024]]["Number of People with CF deceased"].num = 1
    /\ grouped[PeriodText[2024]]["Total number of hospitalization events"].num = 23

\* the SUM-type total of metric m for period Y in an aggregation result g, as the
\* report reads it: zero when the period is absent
SumIn(g, m, Y) == IF PeriodText[Y] \in DOMAIN g THEN g[PeriodText[Y]][m].num ELSE 0

\* the aggregation result of the pipeline under the selection S
GroupedUnder(S) == GroupedOf(FilterByCountry(df, S))

\* C9: with non-negative metric values, narrowing the selection never raises a
\* SUM-type total: for S1 a subset of the selection, each total per period under
\* S1 is at most the total under the selection.
C9_FilterMonotone ==
    pc = "done" =>
        \A S1 \in SUBSET countries :
            LET g1 == GroupedUnder(S1)
            IN  \A Y \in TargetPeriods, m \in DOMAIN agg_map :
                    agg_map[m] = "sum" => SumIn(g1, m, Y) <= SumIn(grouped, m, Y)

\* both countries selected, each with records of 2024 and a positive total
C9_Witness ==
    /\ pc = "done"
    /\ Cardinality(countries) = 2
    /\ \A c \in countries :
          /\ SumIn(GroupedUnder({c}), "People in the Registry", 2024) > 0
          /\ SumIn(GroupedUnder({c}), "People in the Registry", 2024)
                < SumIn(grouped, "People in the Registry", 2024)

\* the file without its records of other periods
TargetPeriodRecords(file) == SelectSeq(file, LAMBDA r : r.Year \in TargetPeriods)

\* C10: records of periods other than 2024 and 2025 do not influence the report:
\* under the same selection, the file without them gives the same report rows.
C10_OtherPeriodsIgnored ==
    pc = "done" =>
        LET kept == FilterByCountry(Normalize(TargetPeriodRecords(uploaded), columns), countries)
        IN  report_data = ReportOf(GroupedOf(kept), UniqueCountriesOf(kept))

\* a record of 2023 stands between records of 2024 and 2025, and passed the filter
C10_Witness ==
    /\ pc = "done"
    /\ Len(df_filtered) = 3
    /\ df_filtered[1].Year = 2024
    /\ df_filtered[2].Year = 2023
    /\ df_filtered[3].Year = 2025

====
